---- MODULE Spec2Model ----
(***************************************************************************)
(* Model of scripts/add_skip_markers.py: the marker injector               *)
(* add_skip_marker (read a Go test file, find the one-line signature of a  *)
(* test function with a regular expression, splice a t.Skip line after the *)
(* opening brace, overwrite the file) and its driver main.                 *)
(*                                                                         *)
(* Texts are sequences of characters, each character a one-character       *)
(* string.  Two characters have no ASCII spelling here and are written by  *)
(* name: "U+2705" is the check-mark glyph of the marker text, "0xFF" is a  *)
(* byte that is not valid in the encoding read_text decodes with.          *)
(***************************************************************************)
EXTENDS Integers, Sequences, FiniteSets, TLC

VARIABLES
    fs,             \* the file system: path -> node
    fs0,            \* history: the file system before the program started
    call,           \* the last add_skip_marker call: arguments, node before, outcome
    ncalls,         \* SpecCall: number of calls made so far
    pc,             \* main: "idle" | "loop" | "summary" | "done" | "crashed"
    fi,             \* main: index of the current file of CONVERTED_TESTS
    ti,             \* main: index of the current pair within that file
    success_count,  \* main: line 88
    total_count,    \* main: line 89
    exit_status,    \* the status the process ends with (-1 while running)
    run,            \* number of the current run of the program (1, 2, ...)
    log,            \* history: the pairs attempted so far, with run number and result
    procs           \* SpecRace: the two concurrent add_skip_marker calls

vars == <<fs, fs0, call, ncalls, pc, fi, ti, success_count, total_count,
          exit_status, run, log, procs>>

----------------------------------------------------------------------------
(* Bounds *)

\* SpecCall: how many add_skip_marker calls are made in a row
MaxCalls == 2

\* Spec: how many times the program is run in succession
MaxRuns == 2

----------------------------------------------------------------------------
(* Texts *)

RECURSIVE Flatten(_)
Flatten(ss) == IF ss = <<>> THEN <<>> ELSE Head(ss) \o Flatten(Tail(ss))

\* the part of s from 0-based offset a (inclusive) to b (exclusive): s[a:b]
Slice(s, a, b) == SubSeq(s, a + 1, b)

\* does the literal text t occur in s at 0-based offset a
OccursAt(t, s, a) ==
    /\ a >= 0
    /\ a + Len(t) <= Len(s)
    /\ \A k \in 1..Len(t) : s[a + k] = t[k]

\* the 0-based offsets at which the literal text t occurs in s
Occurrences(t, s) == { a \in 0..Len(s) : OccursAt(t, s, a) }

NumNewlines(s) == Cardinality({ k \in 1..Len(s) : s[k] = "\n" })

\* the offset of the i-th "\n" of s (1-based position), 0 for i = 0 and
\* Len(s) + 1 past the last one
NewlineAt(s, i) ==
    LET nl == { k \in 1..Len(s) : s[k] = "\n" } IN
    IF i = 0 THEN 0
    ELSE IF i > Cardinality(nl) THEN Len(s) + 1
    ELSE CHOOSE k \in nl : Cardinality({ j \in nl : j <= k }) = i

\* the lines of a text: the pieces between its "\n" characters
Lines(s) ==
    [i \in 1..(NumNewlines(s) + 1) |->
        SubSeq(s, NewlineAt(s, i - 1) + 1, NewlineAt(s, i) - 1)]

----------------------------------------------------------------------------
(* The file system, as pathlib sees it *)

AbsentNode == [kind |-> "absent", data |-> <<>>, writable |-> FALSE]
DirNode    == [kind |-> "dir",    data |-> <<>>, writable |-> TRUE]
FileNode(data, writable) == [kind |-> "file", data |-> data, writable |-> writable]

\* Path.exists(): true of whatever is at the path, file or not
PathExistsAlways(fsys, filepath) == TRUE
PathExists(fsys, filepath) == fsys[filepath].kind # "absent"

\* text-mode reading translates "\r\n" and a lone "\r" to "\n"
UniversalNewlines(data) ==
    LET paired == [k \in 1..Len(data) |->
                     <<data[k], IF k < Len(data) THEN data[k + 1] ELSE "">>]
        Kept(p) == ~(p[1] = "\r" /\ p[2] = "\n")
        kept    == SelectSeq(paired, Kept)
    IN  [k \in 1..Len(kept) |-> IF kept[k][1] = "\r" THEN "\n" ELSE kept[k][1]]

\* a variant that keeps returning what the file held when the program started
ReadTextCached(fsys, filepath) ==
    LET node == fs0[filepath] IN
    CASE node.kind = "absent" -> [exc |-> "FileNotFoundError", text |-> <<>>]
      [] node.kind = "dir"    -> [exc |-> "IsADirectoryError", text |-> <<>>]
      [] OTHER ->
            IF \E k \in 1..Len(node.data) : node.data[k] = "0xFF"
            THEN [exc |-> "UnicodeDecodeError", text |-> <<>>]
            ELSE [exc |-> "none", text |-> UniversalNewlines(node.data)]

\* Path.read_text(): the decoded text, or the exception open/read/decode raises
ReadText(fsys, filepath) ==
    LET node == fsys[filepath] IN
    CASE node.kind = "absent" -> [exc |-> "FileNotFoundError", text |-> <<>>]
      [] node.kind = "dir"    -> [exc |-> "IsADirectoryError", text |-> <<>>]
      [] OTHER ->
            IF \E k \in 1..Len(node.data) : node.data[k] = "0xFF"
            THEN [exc |-> "UnicodeDecodeError", text |-> <<>>]
            ELSE [exc |-> "none", text |-> UniversalNewlines(node.data)]

\* Path.write_text(): open for writing (truncate, create when absent), write
\* the text with "\n" kept as it is (POSIX os.linesep); open fails on a
\* directory and on a file without write permission, before anything changes
WriteText(fsys, filepath, text) ==
    LET node == fsys[filepath] IN
    CASE node.kind = "dir" -> [exc |-> "IsADirectoryError", fs |-> fsys]
      [] node.kind = "file" /\ ~node.writable -> [exc |-> "PermissionError", fs |-> fsys]
      [] OTHER -> [exc |-> "none",
                   fs  |-> [fsys EXCEPT ![filepath] = FileNode(text, TRUE)]]

----------------------------------------------------------------------------
(* The regular expression of line 69 *)

\* rf'func {test_name}\(t \*testing\.T\) {{' : the pattern's source text
PatternSource(test_name) ==
    <<"f","u","n","c"," ">> \o test_name \o
    <<"\\","(","t"," ","\\","*","t","e","s","t","i","n","g","\\",".","T","\\",")"," ","{">>

\* re.compile, for the syntax this pattern uses: a backslash makes the next
\* (punctuation) character a literal, an unescaped "." matches any character
\* but "\n", every other character here is a literal (the final "{" opens no
\* quantifier, so it is one too)
RECURSIVE ReCompile(_)
ReCompile(src) ==
    IF src = <<>> THEN <<>>
    ELSE IF Head(src) = "\\" /\ Len(src) >= 2
         THEN <<[kind |-> "lit", ch |-> src[2]]>> \o ReCompile(SubSeq(src, 3, Len(src)))
         ELSE IF Head(src) = "."
              THEN <<[kind |-> "any", ch |-> "."]>> \o ReCompile(Tail(src))
              ELSE <<[kind |-> "lit", ch |-> Head(src)]>> \o ReCompile(Tail(src))

ElemMatches(e, c) == IF e.kind = "any" THEN c # "\n" ELSE c = e.ch

\* does the compiled pattern match the content at 0-based offset a
MatchesAt(pat, content, a) ==
    /\ a + Len(pat) <= Len(content)
    /\ \A k \in 1..Len(pat) : ElemMatches(pat[k], content[a + k])

MatchStarts(pat, content) == { a \in 0..Len(content) : MatchesAt(pat, content, a) }

NoMatch == [found |-> FALSE, start |-> 0, end |-> 0]

\* re.search(pattern, content): the leftmost match, or None
ReSearchLast(pattern, content) ==
    LET pat == ReCompile(pattern)
        ms  == MatchStarts(pat, content)
    IN  IF ms = {} THEN NoMatch
        ELSE LET a == CHOOSE x \in ms : \A y \in ms : x >= y
             IN [found |-> TRUE, start |-> a, end |-> a + Len(pat)]
ReSearch(pattern, content) ==
    LET pat == ReCompile(pattern)
        ms  == MatchStarts(pat, content)
    IN  IF ms = {} THEN NoMatch
        ELSE LET a == CHOOSE x \in ms : \A y \in ms : x <= y
             IN [found |-> TRUE, start |-> a, end |-> a + Len(pat)]

----------------------------------------------------------------------------
(* add_skip_marker, lines 59-83 *)

\* the text t.Skip(" ... : of line 78, up to the label
SkipPrefix ==
    <<"\n","\t","t",".","S","k","i","p","(","\"","U+2705"," ",
      "C","O","N","V","E","R","T","E","D"," ","T","O"," ","H","C","L",":"," ">>

\* line 78: skip_line = f'\n\tt.Skip("... CONVERTED TO HCL: {hcl_path}")\n'
SkipLine(hcl_path) == SkipPrefix \o hcl_path \o <<"\"",")","\n">>

\* line 80: content[:insert_pos] + skip_line + content[insert_pos:]
SpliceOverBrace(content, insert_pos, skip_line) ==
    Slice(content, 0, insert_pos - 1) \o skip_line \o Slice(content, insert_pos, Len(content))
Splice(content, insert_pos, skip_line) ==
    Slice(content, 0, insert_pos) \o skip_line \o Slice(content, insert_pos, Len(content))

Returned(value, fsys) == [kind |-> "return", value |-> value, exc |-> "none", fs |-> fsys]
Raised(exc, fsys)     == [kind |-> "raise",  value |-> FALSE, exc |-> exc,    fs |-> fsys]

\* a variant that writes the content back whether or not the signature was found
AddSkipMarkerWriteAlways(fsys, filepath, test_name, hcl_path) ==
    IF ~PathExists(fsys, filepath) THEN Returned(FALSE, fsys)
    ELSE
      LET rd == ReadText(fsys, filepath) IN
      IF rd.exc # "none" THEN Raised(rd.exc, fsys)
      ELSE
        LET content     == rd.text
            match       == ReSearch(PatternSource(test_name), content)
            new_content == IF match.found
                           THEN Splice(content, match.end, SkipLine(hcl_path))
                           ELSE content
            wr          == WriteText(fsys, filepath, new_content)
        IN  IF wr.exc # "none" THEN Raised(wr.exc, fsys)
            ELSE Returned(match.found, wr.fs)

\* a variant that adds no second marker where one already stands
AddSkipMarkerOnce(fsys, filepath, test_name, hcl_path) ==
    IF ~PathExists(fsys, filepath) THEN Returned(FALSE, fsys)
    ELSE
      LET rd == ReadText(fsys, filepath) IN
      IF rd.exc # "none" THEN Raised(rd.exc, fsys)
      ELSE
        LET content == rd.text
            match   == ReSearch(PatternSource(test_name), content)
        IN
        IF ~match.found THEN Returned(FALSE, fsys)
        ELSE IF OccursAt(SkipLine(hcl_path), content, match.end)
        THEN Returned(TRUE, fsys)
        ELSE
          LET wr == WriteText(fsys, filepath,
                              Splice(content, match.end, SkipLine(hcl_path)))
          IN  IF wr.exc # "none" THEN Raised(wr.exc, fsys)
              ELSE Returned(TRUE, wr.fs)

\* the whole call, run without interruption: its outcome and the file system after it
AddSkipMarker(fsys, filepath, test_name, hcl_path) ==
    IF ~PathExists(fsys, filepath) THEN Returned(FALSE, fsys)
    ELSE
      LET rd == ReadText(fsys, filepath) IN
      IF rd.exc # "none" THEN Raised(rd.exc, fsys)
      ELSE
        LET content == rd.text
            match   == ReSearch(PatternSource(test_name), content)
        IN
        IF ~match.found THEN Returned(FALSE, fsys)
        ELSE
          LET insert_pos  == match.end
              new_content == Splice(content, insert_pos, SkipLine(hcl_path))
              wr          == WriteText(fsys, filepath, new_content)
          IN  IF wr.exc # "none" THEN Raised(wr.exc, fsys)
              ELSE Returned(TRUE, wr.fs)

----------------------------------------------------------------------------
(* The table of lines 12-57, scaled down: two files, three and two pairs.  *)
(* Test names and labels are texts; the names are Go identifiers.          *)

TestA == <<"T","A">>
TestB == <<"T","B">>
TestC == <<"T","C">>
TestD == <<"T","D">>
TestE == <<"T","E">>

HclPath   == <<"j",".","h","c","l">>
HclMerged == <<"j",".","h","c","l"," ","(","m",")">>

JobsFile    == "test/integration/jobs_test.go"
RemotesFile == "test/integration/remotes_test.go"

CONVERTED_TESTS ==
    << [filepath |-> JobsFile,
        tests    |-> << <<TestA, HclPath>>, <<TestB, HclMerged>>, <<TestC, HclPath>> >>],
       [filepath |-> RemotesFile,
        tests    |-> << <<TestD, HclPath>>, <<TestE, HclMerged>> >>] >>

Paths == { CONVERTED_TESTS[i].filepath : i \in 1..Len(CONVERTED_TESTS) }

\* the test names the table lists for a file, in table order
TestNames(filepath) ==
    LET i == CHOOSE j \in 1..Len(CONVERTED_TESTS) : CONVERTED_TESTS[j].filepath = filepath
    IN  [k \in 1..Len(CONVERTED_TESTS[i].tests) |-> CONVERTED_TESTS[i].tests[k][1]]

----------------------------------------------------------------------------
(* Go test files the program may find on disk *)

\* the one-line signature the pattern is written for
GoSignature(name) ==
    <<"f","u","n","c"," ">> \o name \o
    <<"(","t"," ","*","t","e","s","t","i","n","g",".","T",")"," ","{">>

GoBody == <<"\n","\t","b","(",")","\n","}","\n">>

\* how a test function may be written in the file
FuncText(name, variant) ==
    CASE variant = "ok"         -> GoSignature(name) \o GoBody
      [] variant = "misspelled" -> GoSignature(name \o <<"s">>) \o GoBody
      [] variant = "multiline"  ->
            <<"f","u","n","c"," ">> \o name \o
            <<"(","\n","\t","t"," ","*","t","e","s","t","i","n","g",".","T",",","\n",")"," ","{">>
            \o GoBody
      [] variant = "inline"     -> GoSignature(name) \o <<" ","b","(",")"," ","}","\n">>
      [] variant = "commented"  ->
            <<"/","/"," ">> \o GoSignature(name) \o <<"\n">> \o GoSignature(name) \o GoBody
      [] OTHER -> <<>>

Variants == {"ok", "misspelled", "multiline", "inline", "commented", "missing"}

GoHeader == <<"p","k","g","\n">>

\* a file that writes its i-th function the way vs[i] says
GoFile(names, vs) ==
    GoHeader \o Flatten([i \in 1..Len(names) |-> FuncText(names[i], vs[i])])

\* the same text with every line end written "\r\n"
ToCRLF(text) ==
    LET doubled == [j \in 1..(2 * Len(text)) |->
                      IF j % 2 = 0 THEN text[j \div 2]
                      ELSE IF text[(j + 1) \div 2] = "\n" THEN "\r" ELSE ""]
        Kept(c) == c # ""
    IN  SelectSeq(doubled, Kept)

AllOk(names) == GoFile(names, [i \in 1..Len(names) |-> "ok"])

\* what may be at a path besides a writable "\n" text: nothing, a directory,
\* an empty file, a file that does not decode, a read-only file, a file with
\* "\r\n" line ends
SpecialNodes(names) ==
    { AbsentNode, DirNode,
      FileNode(<<>>, TRUE),
      FileNode(<<"0xFF">> \o AllOk(names), TRUE),
      FileNode(AllOk(names), FALSE),
      FileNode(ToCRLF(AllOk(names)), TRUE) }

\* the nodes a path of the table may hold when the program starts
TextNodes(names, variants) ==
    { FileNode(GoFile(names, vs), TRUE) : vs \in [1..Len(names) -> variants] }

----------------------------------------------------------------------------
(* SpecCall: add_skip_marker called directly, on any triple *)

\* the record of a call: its arguments, the file system before it, its outcome
CallRecord(filepath, test_name, hcl_path, before, outcome) ==
    [made |-> TRUE, filepath |-> filepath, test_name |-> test_name,
     hcl_path |-> hcl_path, before |-> before,
     kind |-> outcome.kind, value |-> outcome.value, exc |-> outcome.exc]

NoCall(fsys) ==
    [made |-> FALSE, filepath |-> "", test_name |-> <<>>, hcl_path |-> <<>>,
     before |-> fsys, kind |-> "none", value |-> FALSE, exc |-> "none"]

\* the files the calls are tried on: every way of writing the first
\* function, three ways of writing the second, and the special nodes
CallNames == <<TestA, TestB>>

CallNodes ==
    SpecialNodes(CallNames) \cup
    { FileNode(GoFile(CallNames, <<v1, v2>>), TRUE) :
        v1 \in Variants, v2 \in {"ok", "missing", "commented"} }

\* TestC is in none of the files: a test identifier that is spelled wrong
CallTestNames == {TestA, TestB, TestC}
CallLabels    == {HclPath, HclMerged}

MainIdle ==
    /\ pc = "idle" /\ fi = 0 /\ ti = 0
    /\ success_count = 0 /\ total_count = 0
    /\ exit_status = -1 /\ run = 0 /\ log = <<>>

NoProcs == <<>>

InitCall ==
    /\ fs \in [Paths -> CallNodes]
    /\ fs[RemotesFile] \in {AbsentNode, FileNode(AllOk(CallNames), TRUE)}
    /\ fs0 = fs
    /\ call = NoCall(fs)
    /\ ncalls = 0
    /\ MainIdle
    /\ procs = NoProcs

Call(filepath, test_name, hcl_path) ==
    /\ ncalls < MaxCalls
    /\ LET outcome == AddSkipMarker(fs, filepath, test_name, hcl_path) IN
        /\ fs' = outcome.fs
        /\ call' = CallRecord(filepath, test_name, hcl_path, fs, outcome)
    /\ ncalls' = ncalls + 1
    /\ UNCHANGED <<fs0, pc, fi, ti, success_count, total_count, exit_status,
                   run, log, procs>>

NextCall ==
    \E filepath \in Paths, test_name \in CallTestNames, hcl_path \in CallLabels :
        Call(filepath, test_name, hcl_path)

SpecCall == InitCall /\ [][NextCall]_vars

----------------------------------------------------------------------------
(* Spec: the program, main of lines 85-109 under sys.exit of line 112,     *)
(* run MaxRuns times in succession on the same files                       *)

NumFiles == Len(CONVERTED_TESTS)
Tests(i) == CONVERTED_TESTS[i].tests

\* the pairs of the table in iteration order, as <<filepath, test_name, hcl_path>>
TablePairs ==
    Flatten([i \in 1..NumFiles |->
               [k \in 1..Len(Tests(i)) |->
                  <<CONVERTED_TESTS[i].filepath, Tests(i)[k][1], Tests(i)[k][2]>>]])

DriverVariants == {"ok", "misspelled", "commented"}

DriverNodes(filepath) ==
    SpecialNodes(TestNames(filepath)) \cup TextNodes(TestNames(filepath), DriverVariants)

Init ==
    /\ fs \in [Paths -> UNION { DriverNodes(p) : p \in Paths }]
    /\ \A p \in Paths : fs[p] \in DriverNodes(p)
    /\ fs0 = fs
    /\ call = NoCall(fs)
    /\ ncalls = 0
    /\ MainIdle
    /\ procs = NoProcs

\* the process starts: lines 86-89
StartRun ==
    /\ pc \in {"idle", "done", "crashed"}
    /\ run < MaxRuns
    /\ run' = run + 1
    /\ pc' = "loop"
    /\ fi' = 1 /\ ti' = 1
    /\ success_count' = 0
    /\ total_count' = 0
    /\ exit_status' = -1
    /\ UNCHANGED <<fs, fs0, call, ncalls, log, procs>>

\* one iteration of the inner loop, lines 93-99, with the loop headers of
\* lines 91 and 93 that pick the next pair; an exception add_skip_marker
\* raises is caught nowhere and ends the process with status 1
Step ==
    /\ pc = "loop"
    /\ LET filepath  == CONVERTED_TESTS[fi].filepath
           test_name == Tests(fi)[ti][1]
           hcl_path  == Tests(fi)[ti][2]
           outcome   == AddSkipMarker(fs, filepath, test_name, hcl_path)
       IN
        /\ total_count' = total_count + 1
        /\ fs' = outcome.fs
        /\ call' = CallRecord(filepath, test_name, hcl_path, fs, outcome)
        /\ log' = Append(log, [run |-> run,
                               filepath |-> filepath, test_name |-> test_name,
                               hcl_path |-> hcl_path, kind |-> outcome.kind,
                               value |-> outcome.value])
        /\ IF outcome.kind = "raise"
           THEN /\ pc' = "crashed"
                /\ exit_status' = 1
                /\ UNCHANGED <<success_count, fi, ti>>
           ELSE /\ success_count' = IF outcome.value THEN success_count + 1
                                    ELSE success_count
                /\ exit_status' = exit_status
                /\ IF ti < Len(Tests(fi))
                   THEN /\ ti' = ti + 1
                        /\ UNCHANGED <<fi, pc>>
                   ELSE IF fi < NumFiles
                        THEN /\ fi' = fi + 1
                             /\ ti' = 1
                             /\ pc' = pc
                        ELSE /\ pc' = "summary"
                             /\ UNCHANGED <<fi, ti>>
    /\ UNCHANGED <<fs0, ncalls, run, procs>>

\* lines 104-109: what main returns
ExitStatusAnySuccess(succeeded, attempted) == IF succeeded > 0 THEN 0 ELSE 1
ExitStatus(succeeded, attempted) == IF succeeded = attempted THEN 0 ELSE 1

\* lines 102-109 and 112: the summary and the exit status
Summary ==
    /\ pc = "summary"
    /\ exit_status' = ExitStatus(success_count, total_count)
    /\ pc' = "done"
    /\ UNCHANGED <<fs, fs0, call, ncalls, fi, ti, success_count, total_count,
                   run, log, procs>>

Next == StartRun \/ Step \/ Summary

Spec == Init /\ [][Next]_vars

----------------------------------------------------------------------------
(* SpecRace: two instances at once, each inside one add_skip_marker call.  *)
(* The call is three steps: the existence test of line 62, the read of     *)
(* line 66, and the search, splice and overwrite of lines 69-82 on the     *)
(* text read earlier.  Nothing locks the file between them.                *)

Proc(triple) ==
    [pc |-> "exists", filepath |-> triple[1], test_name |-> triple[2],
     hcl_path |-> triple[3], content |-> <<>>, value |-> FALSE, exc |-> "none",
     stale |-> FALSE]   \* history: the file was overwritten after this call read it

RaceNodes ==
    { AbsentNode, DirNode,
      FileNode(AllOk(TestNames(JobsFile)), TRUE),
      FileNode(ToCRLF(AllOk(TestNames(JobsFile))), TRUE),
      FileNode(GoFile(TestNames(JobsFile), <<"commented", "ok", "misspelled">>), TRUE) }

RaceTriples ==
    { TablePairs[k] : k \in 1..Len(TablePairs) } \cup { <<JobsFile, TestA, HclMerged>> }

InitRace ==
    /\ fs \in [Paths -> RaceNodes \cup { FileNode(AllOk(TestNames(RemotesFile)), TRUE) }]
    /\ fs[JobsFile] \in RaceNodes
    /\ fs[RemotesFile] \in { AbsentNode, FileNode(AllOk(TestNames(RemotesFile)), TRUE) }
    /\ fs0 = fs
    /\ call = NoCall(fs)
    /\ ncalls = 0
    /\ MainIdle
    /\ procs \in { <<Proc(a), Proc(b)>> : a \in RaceTriples, b \in RaceTriples }

\* lines 61-64
RaceExists(i) ==
    /\ procs[i].pc = "exists"
    /\ procs' = [procs EXCEPT ![i].pc =
                    IF PathExists(fs, procs[i].filepath) THEN "read" ELSE "returned"]
    /\ UNCHANGED <<fs, fs0, call, ncalls, pc, fi, ti, success_count, total_count,
                   exit_status, run, log>>

\* line 66
RaceRead(i) ==
    /\ procs[i].pc = "read"
    /\ LET rd == ReadText(fs, procs[i].filepath) IN
        procs' = [procs EXCEPT ![i] =
                    IF rd.exc # "none"
                    THEN [@ EXCEPT !.pc = "raised", !.exc = rd.exc]
                    ELSE [@ EXCEPT !.pc = "write", !.content = rd.text]]
    /\ UNCHANGED <<fs, fs0, call, ncalls, pc, fi, ti, success_count, total_count,
                   exit_status, run, log>>

\* the content lines 70-80 work on: the text line 66 read
FreshContent(fsys, p) == ReadText(fsys, p.filepath).text
WorkingContent(fsys, p) == p.content

\* lines 69-83
RaceWrite(i) ==
    /\ procs[i].pc = "write"
    /\ LET p       == procs[i]
           content == WorkingContent(fs, p)
           match   == ReSearch(PatternSource(p.test_name), content)
           wr      == WriteText(fs, p.filepath,
                                Splice(content, match.end, SkipLine(p.hcl_path)))
       IN
        IF ~match.found
        THEN /\ procs' = [procs EXCEPT ![i].pc = "returned"]
             /\ fs' = fs
        ELSE IF wr.exc # "none"
        THEN /\ procs' = [procs EXCEPT ![i] = [@ EXCEPT !.pc = "raised", !.exc = wr.exc]]
             /\ fs' = fs
        ELSE /\ fs' = wr.fs
             /\ procs' = [j \in 1..2 |->
                            IF j = i THEN [p EXCEPT !.pc = "returned", !.value = TRUE]
                            ELSE IF procs[j].pc = "write" /\ procs[j].filepath = p.filepath
                                 THEN [procs[j] EXCEPT !.stale = TRUE]
                                 ELSE procs[j]]
    /\ UNCHANGED <<fs0, call, ncalls, pc, fi, ti, success_count, total_count,
                   exit_status, run, log>>

NextRace == \E i \in 1..2 : RaceExists(i) \/ RaceRead(i) \/ RaceWrite(i)

SpecRace == InitRace /\ [][NextRace]_vars

----------------------------------------------------------------------------
(* Vocabulary of the properties *)

\* the node is a file whose bytes decode
IsText(node) ==
    node.kind = "file" /\ \A k \in 1..Len(node.data) : node.data[k] # "0xFF"

\* a decodable file's text with its line ends read as "\n"
TextOf(node) == UniversalNewlines(node.data)

\* the 0-based offsets at which the one-line signature of the test stands
SignatureOffsets(test_name, text) == Occurrences(GoSignature(test_name), text)

Least(S) == CHOOSE x \in S : \A y \in S : x <= y

\* a marker stands wherever the fixed part of the skip line does
NumMarkers(text) == Cardinality(Occurrences(SkipPrefix, text))

\* the marker line itself: the skip line without the "\n" before and after it
MarkerLine(hcl_path) == SubSeq(SkipLine(hcl_path), 2, Len(SkipLine(hcl_path)) - 1)

\* the number of the line (1-based) that holds 0-based offset a
LineOf(text, a) == 1 + Cardinality({ k \in 1..a : text[k] = "\n" })

ExistingPaths(fsys) == { p \in Paths : fsys[p].kind # "absent" }

CallBefore == call.before[call.filepath]
CallAfter  == fs[call.filepath]
ReturnedTrue  == call.kind = "return" /\ call.value
ReturnedFalse == call.kind = "return" /\ ~call.value

----------------------------------------------------------------------------
(* C1 *)

\* the case of C1: the file was there, decodable, with the signature exactly once
C1Case ==
    /\ call.made
    /\ IsText(CallBefore)
    /\ Cardinality(SignatureOffsets(call.test_name, TextOf(CallBefore))) = 1

----------------------------------------------------------------------------
(* C2 *)

\* the case of C2: the file was there, decodable, without the signature
C2Case ==
    /\ call.made
    /\ IsText(CallBefore)
    /\ SignatureOffsets(call.test_name, TextOf(CallBefore)) = {}

\* C2: when the file exists and its text holds the signature nowhere (name
\* misspelled, signature over several lines, empty file), the call returns
\* failure and every file holds the bytes it held before the call.
C2_NoMatchLeavesBytes ==
    C2Case => ReturnedFalse /\ fs = call.before

\* C2 happens: a failed call on a file that is not empty and has "\r\n"
\* line ends, whose bytes a rewrite would have changed
C2_Witness ==
    /\ C2Case
    /\ Len(CallBefore.data) > 0
    /\ CallBefore.data # TextOf(CallBefore)
    /\ ReturnedFalse

----------------------------------------------------------------------------
(* C3 *)

C3Case == call.made /\ CallBefore.kind = "absent"

\* C3: when nothing is at the path, the call returns failure, the same paths
\* exist as before and no file has changed.
C3_AbsentCreatesNothing ==
    C3Case =>
        /\ ReturnedFalse
        /\ ExistingPaths(fs) = ExistingPaths(call.before)
        /\ fs = call.before

C3_Witness == C3Case /\ ReturnedFalse /\ fs[call.filepath].kind = "absent"

----------------------------------------------------------------------------
(* C7 *)

\* C7 as claimed: whatever is at the path, the call ends by returning a
\* boolean; no exception leaves it.
C7_AlwaysReturns == call.made => call.kind = "return"

----------------------------------------------------------------------------
(* C10 *)

\* the case of C10: an overwritable text file with the signature more than once
C10Case ==
    /\ call.made
    /\ IsText(CallBefore) /\ CallBefore.writable
    /\ Cardinality(SignatureOffsets(call.test_name, TextOf(CallBefore))) >= 2

\* the case of a re-run: a marker already stands right after the first signature
RerunCase ==
    /\ call.made
    /\ IsText(CallBefore) /\ CallBefore.writable
    /\ SignatureOffsets(call.test_name, TextOf(CallBefore)) # {}
    /\ OccursAt(SkipPrefix, TextOf(CallBefore),
                Least(SignatureOffsets(call.test_name, TextOf(CallBefore)))
                  + Len(GoSignature(call.test_name)))

\* C10: when the signature stands more than once in the text, the call
\* returns success and adds exactly one marker, the skip line spliced in
\* right after the first signature; what follows every later signature is
\* what followed it before.  When a marker already stands right after the
\* first signature (a re-run), the new skip line is spliced in at the same
\* offset, so that the earlier marker follows the new one.
C10_FirstOccurrenceOnly ==
    /\ C10Case =>
        LET text  == TextOf(CallBefore)
            sig   == GoSignature(call.test_name)
            offs  == SignatureOffsets(call.test_name, text)
            first == Least(offs)
            skip  == SkipLine(call.hcl_path)
            after == CallAfter.data
        IN  /\ ReturnedTrue
            /\ NumMarkers(after) = NumMarkers(text) + 1
            /\ OccursAt(sig \o skip, after, first)
            /\ Len(after) = Len(text) + Len(skip)
            /\ \A a \in offs \ {first} :
                  /\ OccursAt(sig, after, a + Len(skip))
                  /\ SubSeq(after, a + Len(skip) + Len(sig) + 1, Len(after))
                       = SubSeq(text, a + Len(sig) + 1, Len(text))
    /\ RerunCase =>
        LET text  == TextOf(CallBefore)
            first == Least(SignatureOffsets(call.test_name, text))
            e     == first + Len(GoSignature(call.test_name))
            skip  == SkipLine(call.hcl_path)
        IN  /\ ReturnedTrue
            /\ OccursAt(skip, CallAfter.data, e)
            /\ SubSeq(CallAfter.data, e + Len(skip) + 1, Len(CallAfter.data))
                 = SubSeq(text, e + 1, Len(text))
            /\ OccursAt(SkipPrefix, CallAfter.data, e + Len(skip))

\* C10 happens: the second of two successful calls for a test whose
\* signature stands twice in the file
C10_Witness ==
    /\ C10Case /\ RerunCase /\ ReturnedTrue
    /\ NumMarkers(CallAfter.data) = 2

----------------------------------------------------------------------------
(* Vocabulary of the properties of main *)

\* the process has ended: main returned, or an exception ended it
Ended == pc \in {"done", "crashed"}

\* the entries of the log that the current run made
RunLog ==
    LET InRun(e) == e.run = run IN SelectSeq(log, InRun)

Succeeded(e) == e.kind = "return" /\ e.value
Failed(e)    == e.kind = "return" /\ ~e.value

\* how many entries of a log satisfy a test
CountIn(entries, Test(_)) == Len(SelectSeq(entries, Test))

\* the markers in the file at a path, none when there is no text there
MarkersAt(fsys, p) == IF IsText(fsys[p]) THEN NumMarkers(TextOf(fsys[p])) ELSE 0

RECURSIVE MarkersInPaths(_, _)
MarkersInPaths(fsys, S) ==
    IF S = {} THEN 0
    ELSE LET p == CHOOSE q \in S : TRUE
         IN  MarkersAt(fsys, p) + MarkersInPaths(fsys, S \ {p})

\* the markers in the text files of a file system
MarkersIn(fsys) == MarkersInPaths(fsys, Paths)

----------------------------------------------------------------------------
(* C4 *)

\* C4: when the process has ended, its status is 0 if every pair of the table
\* was reported as success and 1 otherwise; a pair that failed, for a missing
\* file or for a missing function alike, makes the status 1.
C4_ExitStatus ==
    Ended =>
        LET all == /\ Len(RunLog) = Len(TablePairs)
                   /\ \A k \in 1..Len(RunLog) : Succeeded(RunLog[k])
        IN  /\ exit_status \in {0, 1}
            /\ exit_status = 0 <=> all
            /\ (\E k \in 1..Len(RunLog) : Failed(RunLog[k])) => exit_status = 1

\* C4 happens: main returned 1 after failures of both kinds, a missing file
\* and a missing function
C4_Witness ==
    /\ pc = "done" /\ exit_status = 1
    /\ \E k \in 1..Len(RunLog) :
          Failed(RunLog[k]) /\ fs[RunLog[k].filepath].kind = "absent"
    /\ \E k \in 1..Len(RunLog) :
          Failed(RunLog[k]) /\ fs[RunLog[k].filepath].kind = "file"
    /\ \E k \in 1..Len(RunLog) : Succeeded(RunLog[k])

----------------------------------------------------------------------------
(* C5 *)

\* the pairs of the table whose signature stands in the files as they were
\* before the first run
MatchingPairs ==
    { k \in 1..Len(TablePairs) :
        /\ IsText(fs0[TablePairs[k][1]])
        /\ SignatureOffsets(TablePairs[k][2], TextOf(fs0[TablePairs[k][1]])) # {} }

\* C5: every run that goes through the whole table adds one marker for each
\* pair whose signature stands in its file: the files hold N more markers
\* than at the start after the first run and 2 x N more after the second.
C5_MarkersDouble ==
    pc = "done" => MarkersIn(fs) = MarkersIn(fs0) + run * Cardinality(MatchingPairs)

\* C5 happens: a second run has ended on files that had no marker, with
\* three or more matching pairs
C5_Witness ==
    /\ pc = "done" /\ run = 2
    /\ MarkersIn(fs0) = 0
    /\ Cardinality(MatchingPairs) >= 3
    /\ MarkersIn(fs) = 2 * Cardinality(MatchingPairs)

----------------------------------------------------------------------------
(* C6 *)

\* C6 as claimed: succeeded never exceeds attempted, and when the process
\* has ended every pair of the table has been attempted once, in table
\* order, attempted is the number of pairs of the table and succeeded is the
\* number of calls that returned success.
C6_EveryPairAttempted ==
    /\ success_count <= total_count
    /\ Ended =>
        /\ total_count = Len(TablePairs)
        /\ Len(RunLog) = Len(TablePairs)
        /\ \A k \in 1..Len(RunLog) :
              <<RunLog[k].filepath, RunLog[k].test_name, RunLog[k].hcl_path>>
                = TablePairs[k]
        /\ success_count = CountIn(RunLog, Succeeded)

----------------------------------------------------------------------------
(* C8 *)

RECURSIVE Repeat(_, _)
Repeat(text, n) == IF n = 0 THEN <<>> ELSE text \o Repeat(text, n - 1)

\* how often the pair with this file and test name has been reported as success
Successes(filepath, test_name) ==
    LET Hit(e) == Succeeded(e) /\ e.filepath = filepath /\ e.test_name = test_name
    IN  CountIn(log, Hit)

SuccessesIn(filepath) ==
    LET Hit(e) == Succeeded(e) /\ e.filepath = filepath
    IN  CountIn(log, Hit)

\* C8: after any prefix of the table, in every run, each file holds one
\* marker more than at the start for every success reported for it so far and
\* no other change of its marker count; the markers of a pair stand right
\* after the first signature of the pair's own function, one per success; a
\* path that held no text holds what it held.  Holding in every state, this
\* says that a later pair, failing or not, undoes no earlier insertion.
C8_MarkersAccumulate ==
    \A p \in Paths :
        IF IsText(fs0[p])
        THEN /\ IsText(fs[p])
             /\ NumMarkers(TextOf(fs[p])) = NumMarkers(TextOf(fs0[p])) + SuccessesIn(p)
             /\ \A k \in 1..Len(TablePairs) :
                  LET test_name == TablePairs[k][2]
                      hcl_path  == TablePairs[k][3]
                      text      == TextOf(fs[p])
                      offs      == SignatureOffsets(test_name, text)
                      n         == Successes(p, test_name)
                  IN  (TablePairs[k][1] = p /\ n > 0) =>
                         /\ offs # {}
                         /\ OccursAt(Repeat(SkipLine(hcl_path), n), text,
                                     Least(offs) + Len(GoSignature(test_name)))
        ELSE fs[p] = fs0[p] /\ SuccessesIn(p) = 0

\* C8 happens: in one file a success, then a failure, then another success,
\* and both markers are in the file
C8_Witness ==
    /\ Len(log) >= 3
    /\ Succeeded(log[1]) /\ Failed(log[2]) /\ Succeeded(log[3])
    /\ log[1].filepath = log[3].filepath
    /\ log[2].filepath = log[3].filepath
    /\ NumMarkers(TextOf(fs[log[1].filepath])) = 2

----------------------------------------------------------------------------
(* C9 *)

RaceSucceeded(i) == procs[i].pc = "returned" /\ procs[i].value

\* the calls that returned success for a path, and those among them that
\* wrote a text read before the other call's write
RaceWriters(p)      == { i \in 1..2 : RaceSucceeded(i) /\ procs[i].filepath = p }
RaceStaleWriters(p) == { i \in RaceWriters(p) : procs[i].stale }

\* C9: with two calls at once, a file holds one marker more for every call
\* that returned success for it, less one for every such call that wrote a
\* text it had read before the other call overwrote the file: the markers
\* accumulate exactly when each read comes after the other call's write, and
\* a marker is lost otherwise (the witness is the reachable lost update).
C9_LostUpdateWhenStale ==
    \A p \in Paths :
        IsText(fs0[p]) =>
            NumMarkers(TextOf(fs[p])) =
                NumMarkers(TextOf(fs0[p])) + Cardinality(RaceWriters(p))
                  - Cardinality(RaceStaleWriters(p))

\* C9 happens: both calls returned success for different tests of one file,
\* and the file holds the marker of one of them only
C9_Witness ==
    /\ RaceSucceeded(1) /\ RaceSucceeded(2)
    /\ procs[1].filepath = procs[2].filepath
    /\ procs[1].test_name # procs[2].test_name
    /\ NumMarkers(TextOf(fs[procs[1].filepath]))
         = NumMarkers(TextOf(fs0[procs[1].filepath])) + 1
    /\ \/ Occurrences(GoSignature(procs[1].test_name) \o SkipLine(procs[1].hcl_path),
                      TextOf(fs[procs[1].filepath])) = {}
       \/ Occurrences(GoSignature(procs[2].test_name) \o SkipLine(procs[2].hcl_path),
                      TextOf(fs[procs[2].filepath])) = {}

====
